---- MODULE Spec2Model ----
(***************************************************************************)
(* Model of extract_marks.py (FAIS Minus): a batch script that loads a     *)
(* gradebook export and a grade_config.yml, derives a letter grade for     *)
(* every mark, writes the configured special grades over the derived ones, *)
(* drops withdrawn students, prints cohort statistics, copies interim      *)
(* grade codes into the mark column and writes one CSV file per course.    *)
(*                                                                         *)
(* The script is straight-line code; every statement group of the script   *)
(* is one action and pc is the position of the interpreter. An uncaught    *)
(* exception ends the run (pc = "failed").                                 *)
(*                                                                         *)
(* Cells of the two numeric columns are tagged, <<"int", n>>, <<"str", s>> *)
(* or NaN, because pandas lets one column hold integers, strings and NaN   *)
(* at once (the mark column does after line 180).                          *)
(***************************************************************************)
EXTENDS Integers, Sequences, FiniteSets, TLC

VARIABLES
    set_0_ncn,  \* line 72: the module-level flag
    csv,        \* the rows of the for_SAS file as pd.read_csv returns them
    config,     \* grade_config.yml as yaml.safe_load returns it
    all_marks,  \* the working DataFrame: a sequence of rows in index order
    courses,    \* line 85: the course codes in order of first appearance
    pc,         \* position of the interpreter in the script
    ci,         \* position of the running "for c in courses" loop
    report,     \* what print_stats has printed, one record per call
    pxlist,     \* the addresses printed by the PX listing
    files,      \* the CSV files written so far: file name -> content
    err         \* the uncaught exception that ended the run, or ""

vars == <<set_0_ncn, csv, config, all_marks, courses, pc, ci, report, pxlist, files, err>>

-----------------------------------------------------------------------------
(* Bounds of the model *)

\* number of rows of the export in the general specification
MaxStudents == 2
\* largest mark tried by the grade specification
MaxMark == 100
\* number of rows of the export in the statistics specification
StatsStudents == 6

-----------------------------------------------------------------------------
(* Values *)

IntCell(n) == <<"int", n>>
StrCell(s) == <<"str", s>>
\* the float nan pandas fills a new cell with
NaN == <<"nan", 0>>
\* nan in a column of strings
NaNStr == "nan"

IsInt(cell) == cell[1] = "int"

Digit(d) ==
    CASE d = 0 -> "0" [] d = 1 -> "1" [] d = 2 -> "2" [] d = 3 -> "3"
      [] d = 4 -> "4" [] d = 5 -> "5" [] d = 6 -> "6" [] d = 7 -> "7"
      [] d = 8 -> "8" [] d = 9 -> "9"

\* f'{x}' of a non-negative int: its decimal digits
RECURSIVE Str(_)
Str(n) == IF n < 10 THEN Digit(n) ELSE Str(n \div 10) \o Digit(n % 10)

\* line 82: lambda x: f'u{x}'
MakeUid(x) == "u" \o Str(x)

\* line 81: lambda x: x[0:8]
CourseCodeOf(enrol) == SubSeq(enrol, 1, IF Len(enrol) < 8 THEN Len(enrol) ELSE 8)

\* the list of line 174 without its last code
interim_codes_short == <<"DA", "PX", "RP", "KU">>

\* line 174
interim_codes == <<"DA", "PX", "RP", "KU", "NCN">>

\* line 144: the labels print_value_counts walks through
GradeLabels == <<"HD", "D", "CR", "P", "PX", "N", "NCN", "DA", "RP", "KU", "WD", "WN">>

\* line 187
header == <<"uid", "mark", "grade", "firstname", "surname", "course">>

Range(s) == {s[i] : i \in DOMAIN s}

-----------------------------------------------------------------------------
(* Inputs *)

StudentNumbers == <<1234567, 7654321, 2345678, 3456789, 4567890, 5678901, 6789012, 7890123>>
FirstNames == <<"Jane", "John", "Ann", "Bob", "Cat", "Dan", "Eve", "Fay">>
LastNames == <<"Doe", "Roe", "Lee", "Ng", "Fox", "Kim", "Poe", "Ray">>

\* the marks of the general specification: a zero, a mark of the PX band and
\* a credit (SpecGrade goes through every mark up to MaxMark)
Marks == {0, 47, 65}
EnrolReasons == <<"COMP1100_S1_2024", "COMP2100_S1_2024">>
CourseCodes == {CourseCodeOf(EnrolReasons[i]) : i \in DOMAIN EnrolReasons}

\* a student number that is in no export
AbsentNumber == StudentNumbers[Len(StudentNumbers)]

OverrideCodes == {"DA", "WD", "WN"}

\* the required keys of one entry of grade_config.yml (lines 47-52)
BaseConfig(c) ==
    IF c = "COMP1100"
    THEN [type |-> "UGRD", term |-> 3430, subject |-> "COMP", catalogue |-> 1100, class |-> 2345]
    ELSE [type |-> "PGRD", term |-> 3430, subject |-> "COMP", catalogue |-> 2100, class |-> 6789]

\* yaml gives None for "grades:" with nothing under it, a dict otherwise;
\* a dict is modelled as the sequence of its items in file order
None == <<"none">>
Dict(items) == <<"dict", items>>

WithGrades(c, g) == [k \in DOMAIN BaseConfig(c) \cup {"grades"} |->
                        IF k = "grades" THEN g ELSE BaseConfig(c)[k]]

\* the shapes of one course's entry: no grades key, grades: None, grades: {},
\* or one override
ConfigEntries(c, uids) ==
    {BaseConfig(c), WithGrades(c, None), WithGrades(c, Dict(<<>>))}
    \cup {WithGrades(c, Dict(<< <<u, g>> >>)) : u \in uids, g \in OverrideCodes}

CsvRow(i, mark, enrol) ==
    [number |-> StudentNumbers[i], mark |-> mark,
     first |-> FirstNames[i], last |-> LastNames[i], enrol |-> enrol]

CsvTables(n, marks) ==
    {[i \in 1..n |-> CsvRow(i, m[i], e[i])] :
        m \in [1..n -> marks], e \in [1..n -> Range(EnrolReasons)]}

-----------------------------------------------------------------------------
(* Lines 94-110 *)

\* generate_grade with the PX band closed one mark early
generate_grade_early(mark) ==
    IF mark = 0
    THEN (IF set_0_ncn THEN "NCN" ELSE "N")
    ELSE IF mark <= 44 THEN "N"
    ELSE IF mark < 49 THEN "PX"
    ELSE IF mark <= 59 THEN "P"
    ELSE IF mark <= 69 THEN "CR"
    ELSE IF mark <= 79 THEN "D"
    ELSE "HD"

generate_grade(mark) ==
    IF mark = 0
    THEN (IF set_0_ncn THEN "NCN" ELSE "N")
    ELSE IF mark <= 44 THEN "N"
    ELSE IF mark <= 49 THEN "PX"
    ELSE IF mark <= 59 THEN "P"
    ELSE IF mark <= 69 THEN "CR"
    ELSE IF mark <= 79 THEN "D"
    ELSE "HD"

-----------------------------------------------------------------------------
(* DataFrame operations *)

Index(df) == {df[i].uid : i \in DOMAIN df}

\* lines 80-84: the frame built from the file, indexed by uid
LoadFrame(rows) ==
    [i \in DOMAIN rows |->
        [uid         |-> MakeUid(rows[i].number),
         number      |-> IntCell(rows[i].number),
         mark        |-> IntCell(rows[i].mark),
         first       |-> rows[i].first,
         last        |-> rows[i].last,
         enrol       |-> rows[i].enrol,
         course_code |-> CourseCodeOf(rows[i].enrol)]]

\* line 85: Series.unique() keeps the order of first appearance
RECURSIVE Unique(_)
Unique(s) ==
    IF s = <<>> THEN <<>>
    ELSE LET front == Unique(SubSeq(s, 1, Len(s) - 1))
             x == s[Len(s)]
         IN IF x \in Range(front) THEN front ELSE Append(front, x)

\* line 116: the new column grade
AddGradeColumn(df) ==
    [i \in DOMAIN df |->
        [k \in DOMAIN df[i] \cup {"grade"} |->
            IF k = "grade" THEN generate_grade(df[i].mark[2]) ELSE df[i][k]]]

\* the row pandas appends when a cell of a label that is not in the index is
\* set: every other column is nan
NewRow(uid, grade) ==
    [uid |-> uid, number |-> NaN, mark |-> NaN, first |-> NaNStr, last |-> NaNStr,
     enrol |-> NaNStr, course_code |-> NaNStr, grade |-> grade]

\* the assignment made to a copy of the row (chained indexing): the frame
\* keeps its grades
AtSetGrade_onCopy(df, uid, value) == df

\* line 123: all_marks.at[uid, 'grade'] = value. The index is unique, so the
\* one row labelled uid is set; a label that is not in the index enlarges
\* the frame
AtSetGrade(df, uid, value) ==
    IF uid \in Index(df)
    THEN [i \in DOMAIN df |-> IF df[i].uid = uid THEN [df[i] EXCEPT !.grade = value] ELSE df[i]]
    ELSE Append(df, NewRow(uid, value))

\* lines 122-123: for uid in special_grades
RECURSIVE ApplyItems(_, _)
ApplyItems(df, items) ==
    IF items = <<>> THEN df
    ELSE ApplyItems(AtSetGrade(df, items[1][1], items[1][2]), Tail(items))

\* lines 121-123, special_grades being config[c]['grades']
ApplySpecialGrades(df, special_grades) ==
    IF special_grades # None THEN ApplyItems(df, special_grades[2]) ELSE df

\* lines 126-127: astype(int) raises on a nan
CanCastInt(df) == \A i \in DOMAIN df : IsInt(df[i].number) /\ IsInt(df[i].mark)

\* the filter without its second line
RemoveWithdrawn_onlyWD(df) ==
    LET NotWD(r) == r.grade # "WD" IN SelectSeq(df, NotWD)

\* lines 152-153
RemoveWithdrawn(df) ==
    LET NotWD(r) == r.grade # "WD"
        NotWN(r) == r.grade # "WN"
    IN SelectSeq(SelectSeq(df, NotWD), NotWN)

\* all_marks[all_marks.course_code == c]
OfCourse(df, c) == LET In(r) == r.course_code = c IN SelectSeq(df, In)

\* lines 177-180
CopyInterimGrades(df) ==
    [i \in DOMAIN df |->
        IF df[i].grade \in Range(interim_codes)
        THEN [df[i] EXCEPT !.mark = StrCell(df[i].grade)]
        ELSE df[i]]

-----------------------------------------------------------------------------
(* Lines 130-148: the report *)

\* value_counts()[grade]
CountOf(df, grade) == Cardinality({i \in DOMAIN df : df[i].grade = grade})

\* the percentage rounded up instead of to the nearest hundredth
Percent_up(count, total) ==
    LET q == (count * 10000) \div total
        r == (count * 10000) % total
    IN IF r > 0 THEN q + 1 ELSE q

\* f"{count * 100 / total:.2f}" in hundredths of a percent: the quotient
\* rounded to the nearest hundredth, a tie to the even one
Percent(count, total) ==
    LET q == (count * 10000) \div total
        r == (count * 10000) % total
    IN IF 2 * r > total THEN q + 1
       ELSE IF 2 * r < total THEN q
       ELSE IF q % 2 = 0 THEN q ELSE q + 1

\* lines 144-148: one line per label that counts has, in label order; a
\* label counts lacks raises KeyError, which the except skips
print_value_counts(df) ==
    LET total == Len(df)
        Has(grade) == CountOf(df, grade) > 0
        printed == SelectSeq(GradeLabels, Has)
    IN [i \in DOMAIN printed |->
            [grade |-> printed[i],
             count |-> CountOf(df, printed[i]),
             pct   |-> Percent(CountOf(df, printed[i]), total)]]

\* line 135: describe() of the mark column; the count and the extremes
MarkValues(df) == {df[i].mark[2] : i \in DOMAIN df}
Describe(df) ==
    [count |-> Len(df),
     min |-> IF df = <<>> THEN NaN
             ELSE IntCell(CHOOSE x \in MarkValues(df) : \A y \in MarkValues(df) : x <= y),
     max |-> IF df = <<>> THEN NaN
             ELSE IntCell(CHOOSE x \in MarkValues(df) : \A y \in MarkValues(df) : x >= y)]

\* lines 130-138
print_stats(name, df) ==
    [name |-> name, enrolment |-> Len(df), marks |-> Describe(df),
     counts |-> print_value_counts(df)]

-----------------------------------------------------------------------------
(* Lines 183-191: the export *)

\* to_csv writes an int as its digits, a string as it is, nan as nothing
CsvField(cell) ==
    IF cell[1] = "int" THEN Str(cell[2])
    ELSE IF cell[1] = "str" THEN cell[2]
    ELSE ""

\* line 185 and 190: course_marks[csv_cols], one line of the file
CsvLine(r) ==
    <<CsvField(r.number), CsvField(r.mark), r.grade, r.first, r.last, r.course_code>>

\* line 189
SasFilename(cfg) ==
    Str(cfg.term) \o "-" \o cfg.subject \o "-" \o Str(cfg.catalogue) \o "-"
        \o Str(cfg.class) \o ".csv"

SasFile(df, c) ==
    LET course_marks == OfCourse(df, c)
    IN [header |-> header, lines |-> [i \in DOMAIN course_marks |-> CsvLine(course_marks[i])]]

\* line 167: lambda x : f'u{x}@anu.edu.au'
PxAddresses(df) ==
    LET IsPX(r) == r.grade = "PX"
        px == SelectSeq(df, IsPX)
    IN [i \in DOMAIN px |-> "u" \o Str(px[i].number[2]) \o "@anu.edu.au"]

-----------------------------------------------------------------------------
(* The script *)

\* lines 76-92: read the export and the configuration
Load ==
    /\ pc = "load"
    /\ all_marks' = LoadFrame(csv)
    /\ courses' = Unique([i \in DOMAIN csv |-> CourseCodeOf(csv[i].enrol)])
    /\ pc' = "grade"
    /\ UNCHANGED <<set_0_ncn, csv, config, ci, report, pxlist, files, err>>

\* lines 113-116: add grades
AddGrades ==
    /\ pc = "grade"
    /\ all_marks' = AddGradeColumn(all_marks)
    /\ pc' = IF courses = <<>> THEN "coerce" ELSE "special"
    /\ ci' = 1
    /\ UNCHANGED <<set_0_ncn, csv, config, courses, report, pxlist, files, err>>

\* lines 119-123: one turn of "for c in courses"; config[c]['grades'] raises
\* KeyError when the entry or its grades key is missing
AddSpecialGrades ==
    /\ pc = "special"
    /\ LET c == courses[ci]
       IN IF c \notin DOMAIN config \/ "grades" \notin DOMAIN config[c]
          THEN /\ err' = "KeyError"
               /\ pc' = "failed"
               /\ UNCHANGED <<all_marks, ci>>
          ELSE /\ all_marks' = ApplySpecialGrades(all_marks, config[c].grades)
               /\ ci' = IF ci < Len(courses) THEN ci + 1 ELSE 1
               /\ pc' = IF ci < Len(courses) THEN "special" ELSE "coerce"
               /\ err' = err
    /\ UNCHANGED <<set_0_ncn, csv, config, courses, report, pxlist, files>>

\* lines 125-127: update student number (and mark) to be int
CoerceInt ==
    /\ pc = "coerce"
    /\ IF CanCastInt(all_marks)
       THEN pc' = "filter" /\ err' = err
       ELSE pc' = "failed" /\ err' = "ValueError"
    /\ UNCHANGED <<set_0_ncn, csv, config, all_marks, courses, ci, report, pxlist, files>>

\* lines 151-153: remove WD and WN students
FilterWithdrawn ==
    /\ pc = "filter"
    /\ all_marks' = RemoveWithdrawn(all_marks)
    /\ pc' = "stats"
    /\ UNCHANGED <<set_0_ncn, csv, config, courses, ci, report, pxlist, files, err>>

\* lines 155-161: print the stats
PrintStats ==
    /\ pc = "stats"
    /\ report' = <<print_stats("All Cohorts", all_marks)>>
                    \o [i \in DOMAIN courses |-> print_stats(courses[i], OfCourse(all_marks, courses[i]))]
    /\ pc' = "px"
    /\ UNCHANGED <<set_0_ncn, csv, config, all_marks, courses, ci, pxlist, files, err>>

\* lines 163-169: the PX listing
PrintPXs ==
    /\ pc = "px"
    /\ pxlist' = PxAddresses(all_marks)
    /\ pc' = "interim"
    /\ UNCHANGED <<set_0_ncn, csv, config, all_marks, courses, ci, report, files, err>>

\* lines 173-180: copy interim grades to mark column
CopyInterim ==
    /\ pc = "interim"
    /\ all_marks' = CopyInterimGrades(all_marks)
    /\ pc' = IF courses = <<>> THEN "done" ELSE "export"
    /\ ci' = 1
    /\ UNCHANGED <<set_0_ncn, csv, config, courses, report, pxlist, files, err>>

\* lines 183-191: one turn of the export loop; to_csv replaces a file of the
\* same name
ExportCourse ==
    /\ pc = "export"
    /\ LET c == courses[ci]
           name == SasFilename(config[c])
       IN files' = [f \in DOMAIN files \cup {name} |->
                        IF f = name THEN SasFile(all_marks, c) ELSE files[f]]
    /\ ci' = IF ci < Len(courses) THEN ci + 1 ELSE ci
    /\ pc' = IF ci < Len(courses) THEN "export" ELSE "done"
    /\ UNCHANGED <<set_0_ncn, csv, config, all_marks, courses, report, pxlist, err>>

Next ==
    \/ Load
    \/ AddGrades
    \/ AddSpecialGrades
    \/ CoerceInt
    \/ FilterWithdrawn
    \/ PrintStats
    \/ PrintPXs
    \/ CopyInterim
    \/ ExportCourse

\* the state in which the script starts, the two input files being given
Start(rows, cfg, flag) ==
    /\ set_0_ncn = flag
    /\ csv = rows
    /\ config = cfg
    /\ all_marks = <<>>
    /\ courses = <<>>
    /\ pc = "load"
    /\ ci = 1
    /\ report = <<>>
    /\ pxlist = <<>>
    /\ files = <<>>
    /\ err = ""

ConfigUids(n) == {MakeUid(StudentNumbers[i]) : i \in 1..n} \cup {MakeUid(AbsentNumber)}

Configs(uids) ==
    {[c \in CourseCodes |-> e[c]] :
        e \in {f \in [CourseCodes -> UNION {ConfigEntries(c, uids) : c \in CourseCodes}] :
                    \A c \in CourseCodes : f[c] \in ConfigEntries(c, uids)}}

\* any export of up to MaxStudents rows with any configuration of the two courses
Init ==
    \E n \in 1..MaxStudents, flag \in BOOLEAN :
        \E rows \in CsvTables(n, Marks), cfg \in Configs(ConfigUids(n)) :
            Start(rows, cfg, flag)

Spec == Init /\ [][Next]_vars

\* one row with every mark up to MaxMark, for the grade bands
ConfigsNoOverride == Configs({})

InitGrade ==
    \E m \in 0..MaxMark, e \in Range(EnrolReasons), flag \in BOOLEAN, cfg \in ConfigsNoOverride :
        Start(<<CsvRow(1, m, e)>>, cfg, flag)

SpecGrade == InitGrade /\ [][Next]_vars

\* StatsStudents rows, the first k of them in the first course, with the flag
\* at its default (line 72) and at most one override
StatsMarks == {30, 55, 82}

StatsTables ==
    {[i \in 1..StatsStudents |-> CsvRow(i, m[i], EnrolReasons[IF i <= k THEN 1 ELSE 2])] :
        m \in [1..StatsStudents -> StatsMarks], k \in 0..StatsStudents}

StatsConfigs ==
    {[c \in CourseCodes |-> IF c = "COMP1100" THEN e ELSE WithGrades(c, None)] :
        e \in {WithGrades("COMP1100", None)}
              \cup {WithGrades("COMP1100", Dict(<< <<MakeUid(StudentNumbers[1]), g>> >>)) :
                        g \in OverrideCodes}}

InitStats ==
    \E rows \in StatsTables, cfg \in StatsConfigs : Start(rows, cfg, FALSE)

SpecStats == InitStats /\ [][Next]_vars

-----------------------------------------------------------------------------
(* Properties *)

Loaded == LoadFrame(csv)
RowOf(df, uid) == df[CHOOSE i \in DOMAIN df : df[i].uid = uid]
\* the overrides an entry of the configuration lists
Items(entry) ==
    IF "grades" \in DOMAIN entry /\ entry.grades # None THEN entry.grades[2] ELSE <<>>
Keys(items) == {items[i][1] : i \in DOMAIN items}
AfterOverrides == pc = "coerce"
JustGraded == pc = "special" /\ ci = 1

\* the table of section 4.2: inclusive bands, the last one open
BandTable ==
    {[lo |-> 0,  hi |-> 0,  open |-> FALSE, grade |-> IF set_0_ncn THEN "NCN" ELSE "N"],
     [lo |-> 1,  hi |-> 44, open |-> FALSE, grade |-> "N"],
     [lo |-> 45, hi |-> 49, open |-> FALSE, grade |-> "PX"],
     [lo |-> 50, hi |-> 59, open |-> FALSE, grade |-> "P"],
     [lo |-> 60, hi |-> 69, open |-> FALSE, grade |-> "CR"],
     [lo |-> 70, hi |-> 79, open |-> FALSE, grade |-> "D"],
     [lo |-> 80, hi |-> 80, open |-> TRUE,  grade |-> "HD"]}
BandsOf(m) == {b \in BandTable : b.lo <= m /\ (b.open \/ m <= b.hi)}

\* C1: right after the grade column is added, every row's grade is the grade
\* of the one band of the table that holds its mark (0 is NCN with the flag on
\* and N with it off), so it is one of HD, D, CR, P, PX, N, NCN and never one of
\* DA, RP, KU, WD, WN
C1_GradeIsBand ==
    JustGraded =>
        \A i \in DOMAIN all_marks :
            LET m == all_marks[i].mark[2]
                g == all_marks[i].grade
            IN /\ Cardinality(BandsOf(m)) = 1
               /\ \A b \in BandsOf(m) : g = b.grade
               /\ g \in {"HD", "D", "CR", "P", "PX", "N", "NCN"}
               /\ g \notin {"DA", "RP", "KU", "WD", "WN"}

C1_Witness ==
    /\ JustGraded
    /\ set_0_ncn
    /\ \E i \in DOMAIN all_marks : all_marks[i].mark[2] = 0 /\ all_marks[i].grade = "NCN"

\* every course of the table once more, in the order of the loop of line 119
RECURSIVE ReapplyFrom(_, _)
ReapplyFrom(df, k) ==
    IF k > Len(courses) THEN df
    ELSE ReapplyFrom(ApplySpecialGrades(df, config[courses[k]].grades), k + 1)

C3_AbsentOverrideIsNoOp ==
    /\ Index(all_marks) \subseteq Index(Loaded)
    /\ err # "ValueError"

\* C4: the reports count the rows of the table as it is before the withdrawal
\* filter: the enrolment of the whole table and of each course is the number
\* of loaded rows
C4_ReportCountsWithdrawn ==
    report # <<>> =>
        /\ report[1].enrolment = Len(csv)
        /\ \A n \in DOMAIN courses :
              report[n + 1].enrolment = Len(OfCourse(Loaded, courses[n]))

ExportedLines == UNION {Range(files[f].lines) : f \in DOMAIN files}

\* C5: the filter keeps exactly the rows whose grade is neither WD nor WN,
\* each as it was; the table shrinks by the number of WD and of WN rows; and no
\* file has a line of a student the filter removed
C5_FilterRemovesWithdrawnOnly ==
    /\ [][pc = "filter" =>
            /\ Range(all_marks') = {all_marks[i] : i \in {j \in DOMAIN all_marks :
                                        all_marks[j].grade \notin {"WD", "WN"}}}
            /\ Len(all_marks') = Len(all_marks) - CountOf(all_marks, "WD") - CountOf(all_marks, "WN")
            /\ \A i \in DOMAIN all_marks' : all_marks'[i].grade \notin {"WD", "WN"}]_vars
    /\ [](\A line \in ExportedLines :
            /\ line[3] \notin {"WD", "WN"}
            /\ \A i \in DOMAIN csv :
                  MakeUid(csv[i].number) \notin Index(all_marks) => line[1] # Str(csv[i].number))

C5_Witness ==
    /\ pc = "done"
    /\ Len(all_marks) = 1
    /\ Len(csv) = 2
    /\ Cardinality(ExportedLines) = 1

\* the row of the export a row of the table was loaded from
CsvRowOf(uid) == csv[CHOOSE i \in DOMAIN csv : MakeUid(csv[i].number) = uid]
AfterInterim == pc \in {"export", "done"}

\* C6: the interim step changes nothing but marks; after it a row whose grade
\* is DA, PX, RP, KU or NCN has that code as its mark and any other row has the
\* numeric mark it was loaded with, the other fields being as loaded; once the
\* files are written the mark field of a row's line is that code or number, so
\* a 0 graded NCN is exported as NCN and a 65 overridden to DA as DA
C6_InterimReplacesMarkOnly ==
    /\ [][pc = "interim" =>
            /\ Len(all_marks') = Len(all_marks)
            /\ \A i \in DOMAIN all_marks : \A k \in DOMAIN all_marks[i] \ {"mark"} :
                  all_marks'[i][k] = all_marks[i][k]]_vars
    /\ [](AfterInterim =>
            \A i \in DOMAIN all_marks :
                LET r == all_marks[i]
                    orig == CsvRowOf(r.uid)
                IN /\ r.grade \in {"DA", "PX", "RP", "KU", "NCN"} => r.mark = StrCell(r.grade)
                   /\ r.grade \notin {"DA", "PX", "RP", "KU", "NCN"} => r.mark = IntCell(orig.mark)
                   /\ r.number = IntCell(orig.number)
                   /\ r.first = orig.first /\ r.last = orig.last /\ r.enrol = orig.enrol
                   /\ pc = "done" =>
                        \E line \in ExportedLines :
                            /\ line[1] = Str(orig.number)
                            /\ line[3] = r.grade
                            /\ line[2] = IF r.grade \in {"DA", "PX", "RP", "KU", "NCN"}
                                         THEN r.grade ELSE Str(orig.mark))

C6_Witness ==
    /\ pc = "done"
    /\ \E i, j \in DOMAIN all_marks :
          /\ CsvRowOf(all_marks[i].uid).mark = 65 /\ all_marks[i].mark = StrCell("DA")
          /\ CsvRowOf(all_marks[j].uid).mark = 0 /\ all_marks[j].mark = StrCell("NCN")

\* C7: when the run is done every row left in the table is a line of exactly
\* one file, the file named term-subject-catalogue-class.csv of its own course,
\* under the header uid, mark, grade, firstname, surname, course, and the line
\* is uid ("u" and the student number), mark, grade, first name, last name,
\* course code
C7_RowExportedWithUid ==
    pc = "done" =>
        \A i \in DOMAIN all_marks :
            LET r == all_marks[i]
                cfg == config[r.course_code]
                name == Str(cfg.term) \o "-" \o cfg.subject \o "-" \o Str(cfg.catalogue)
                            \o "-" \o Str(cfg.class) \o ".csv"
                line == <<"u" \o Str(r.number[2]), CsvField(r.mark), r.grade, r.first, r.last,
                          r.course_code>>
            IN /\ name \in DOMAIN files
               /\ files[name].header = <<"uid", "mark", "grade", "firstname", "surname", "course">>
               /\ \A f \in DOMAIN files : line \in Range(files[f].lines) <=> f = name

RequiredKeys == {"type", "term", "subject", "catalogue", "class"}

\* C8: a course whose entry has the required keys and no grades (the key is
\* missing, or it holds nothing) does not make the run fail in the override
\* step
C8_NoGradesKeyIsNoOverride ==
    ~ /\ pc = "failed"
      /\ err = "KeyError"
      /\ courses[ci] \in DOMAIN config
      /\ RequiredKeys \subseteq DOMAIN config[courses[ci]]
      /\ Items(config[courses[ci]]) = <<>>

RECURSIVE SumPct(_)
SumPct(lines) == IF lines = <<>> THEN 0 ELSE lines[1].pct + SumPct(Tail(lines))
RECURSIVE SumCount(_)
SumCount(lines) == IF lines = <<>> THEN 0 ELSE lines[1].count + SumCount(Tail(lines))

\* the rows a report is about: the whole table or one course
Subset(n) == IF n = 1 THEN all_marks ELSE OfCourse(all_marks, courses[n - 1])
Printed(n) == {report[n].counts[k].grade : k \in DOMAIN report[n].counts}
Carried(n) == {Subset(n)[i].grade : i \in DOMAIN Subset(n)}
Reported == pc = "px"

\* C9 as stated: the printed percentages (in hundredths) of every report sum
\* to at most 100.00, and a label no row carries has no line
C9_PrintedSumAtMost100 ==
    Reported =>
        \A n \in DOMAIN report :
            /\ SumPct(report[n].counts) <= 10000
            /\ Printed(n) = Carried(n) \cap Range(GradeLabels)

\* C9 amended: the exact percentages count * 100 / total sum to at most 100;
\* every printed percentage is the exact one rounded to the nearest hundredth,
\* so the printed ones sum to at most 100 plus 0.005 for each printed line; and
\* a label no row carries has no line
C9_PrintedSumWithinRounding ==
    Reported =>
        \A n \in DOMAIN report :
            LET lines == report[n].counts
                total == Len(Subset(n))
            IN /\ SumCount(lines) * 100 <= 100 * total
               /\ \A k \in DOMAIN lines :
                     /\ 2 * (lines[k].pct * total - lines[k].count * 10000) <= total
                     /\ 2 * (lines[k].count * 10000 - lines[k].pct * total) <= total
               /\ 2 * SumPct(lines) <= 20000 + Len(lines)
               /\ Printed(n) = Carried(n) \cap Range(GradeLabels)
               /\ \A k \in DOMAIN lines : lines[k].count > 0

C9_Witness ==
    /\ Reported
    /\ \E n \in DOMAIN report :
          /\ SumPct(report[n].counts) > 10000
          /\ Printed(n) # Range(GradeLabels)

\* C10: after the override step the grade of every student of the table is
\* the code their own course's configuration lists for them, or else the grade
\* derived from their mark
C10_OverrideKeyedByCourse ==
    AfterOverrides =>
        \A i \in DOMAIN csv :
            LET uid == MakeUid(csv[i].number)
                own == Items(config[CourseCodeOf(csv[i].enrol)])
            IN RowOf(all_marks, uid).grade =
                  IF uid \in Keys(own)
                  THEN own[CHOOSE k \in DOMAIN own : own[k][1] = uid][2]
                  ELSE generate_grade(csv[i].mark)

====
